---- MODULE Spec2Model ----
(***************************************************************************)
(* Model of mpris.py, a command line client for MPRIS2 media players.      *)
(*                                                                         *)
(* One behaviour is one run of the script: discovery of the services on    *)
(* the session bus, argument parsing, selection of a service by number or  *)
(* by name suffix (_open_service), construction of MprisService objects    *)
(* with their two capability probes, and the command dispatch with its     *)
(* capability gates.  Every D-Bus call is one step whose reply (a value or *)
(* a fault name) is chosen by the environment; every call is appended to   *)
(* the log "calls" in program order.                                       *)
(*                                                                         *)
(* Names are sequences of tokens: the token "M" stands for the prefix      *)
(* 'org.mpris.MediaPlayer2', the other tokens for single characters.       *)
(* Printed lines are recorded by kind in "out".  Track title and artist    *)
(* are not modelled; the status line keeps the playback status and the     *)
(* position/length part (len_str).                                         *)
(***************************************************************************)
EXTENDS Integers, Sequences, FiniteSets

VARIABLES
    pc,          \* position of the script
    services,    \* list returned by get_services()
    command,     \* args.command
    select,      \* args.service
    verbose,     \* args.verbose
    hasUri,      \* whether args.args holds an element
    sel,         \* parameter "select" of the running _open_service call
    ret,         \* where the running _open_service call returns to
    scan,        \* position of "for s in services" (0: numeric branch)
    self,        \* the MprisService object under construction
    service,     \* variable "service": None or one MprisService
    idx,         \* position of "for i, s in enumerate(services)"
    calls,       \* log of the D-Bus calls made so far
    meta,        \* Metadata as read by the status command
    pos,         \* Position as read by the status command
    out,         \* kinds of the lines printed so far
    statusLine,  \* the line printed by the status command
    exitcode,    \* exit status of the process, once it has ended
    raised       \* exception that left the script uncaught, or "none"

vars == <<pc, services, command, select, verbose, hasUri, sel, ret, scan, self,
          service, idx, calls, meta, pos, out, statusLine, exitcode, raised>>

-----------------------------------------------------------------------------
(* Bounds and input sets *)

\* longest list of names the bus returns
MaxNames == 2

\* MprisService.mpris_base
mpris_base == <<"M">>

\* names registered on the bus; two end with "a", one ends with a digit, one
\* is no MPRIS2 service
BusNames == { <<"M", "a">>, <<"M", "b", "a">>, <<"M", "a", "1">>, <<"o", "a">> }

\* snapshots of bus.list_names(): bus names are unique
BusSnapshots ==
    { s \in UNION { [1..n -> BusNames] : n \in 0..MaxNames } :
        \A i, j \in DOMAIN s : i # j => s[i] # s[j] }

\* values of -s/--service tried besides the default
Selectors ==
    { <<"0">>, <<"1">>, <<"2">>, <<"9">>, <<"-", "1">>, <<"-", "9">>,
      <<"a">>, <<"b", "a">>, <<"-">> }

\* choices of the positional argument "command"
Commands ==
    { "status", "toggle", "stop", "play", "pause", "next", "prev", "open",
      "services" }

\* D-Bus error names (last component)
FaultKinds == { "UnknownInterface", "UnknownMethod", "NotSupported", "NoReply" }

\* faults tried on the two capability probes
ProbeFaults == { "UnknownInterface", "NoReply" }

\* fault tried on the calls whose handling does not look at the error name
ReadFaults == { "NoReply" }

PlaybackStatuses == { "Playing", "Paused", "Stopped" }

\* microsecond values tried for mpris:length and Position
Micros == { 0, 60000000, 125000000 }

None == <<>>

\* exit(1) when no service was found
ExitNotFound == 1

\* exit(2) after "not supported"
ExitUnsupported == 2

\* an entry of the call log
Call(op, name, result) == [op |-> op, name |-> name, result |-> result]

-----------------------------------------------------------------------------
(* Pure helpers *)

Digits == { "0", "1", "2", "3", "4", "5", "6", "7", "8", "9" }

DigitVal(c) ==
    CASE c = "0" -> 0 [] c = "1" -> 1 [] c = "2" -> 2 [] c = "3" -> 3
      [] c = "4" -> 4 [] c = "5" -> 5 [] c = "6" -> 6 [] c = "7" -> 7
      [] c = "8" -> 8 [] c = "9" -> 9

\* str.startswith
StartsWith(s, p) ==
    /\ Len(p) <= Len(s)
    /\ SubSeq(s, 1, Len(p)) = p

\* str.endswith
EndsWith(s, suffix) ==
    /\ Len(suffix) <= Len(s)
    /\ SubSeq(s, Len(s) - Len(suffix) + 1, Len(s)) = suffix

\* the digits of an integer literal after its optional sign
Unsigned(s) == IF Len(s) > 0 /\ s[1] = "-" THEN Tail(s) ELSE s

\* int(select) does not raise ValueError
IsInt(s) ==
    /\ Len(Unsigned(s)) > 0
    /\ \A i \in DOMAIN Unsigned(s) : Unsigned(s)[i] \in Digits

RECURSIVE DecimalValue(_)
DecimalValue(d) ==
    IF d = <<>> THEN 0
    ELSE 10 * DecimalValue(SubSeq(d, 1, Len(d) - 1)) + DigitVal(d[Len(d)])

\* int(select)
ParseInt(s) ==
    IF Len(s) > 0 /\ s[1] = "-" THEN 0 - DecimalValue(Unsigned(s))
    ELSE DecimalValue(Unsigned(s))

\* services[no] does not raise IndexError (a negative index counts from the end)
IndexValid(no, n) == 0 - n <= no /\ no < n

\* services[no], on the 1-based sequence
Subscript(list, no) ==
    IF no >= 0 THEN list[no + 1] ELSE list[Len(list) + no + 1]

\* get_services(): the bus names that start with mpris_base, in bus order
RECURSIVE FilterServices(_)
FilterServices(names) ==
    IF names = <<>> THEN <<>>
    ELSE IF StartsWith(Head(names), mpris_base)
         THEN <<Head(names)>> \o FilterServices(Tail(names))
         ELSE FilterServices(Tail(names))

\* str(timedelta(microseconds=length)), field by field
track_length_string(length) ==
    LET secs == length \div 1000000
    IN  [ days    |-> secs \div 86400,
          hours   |-> (secs % 86400) \div 3600,
          minutes |-> (secs % 3600) \div 60,
          seconds |-> secs % 60,
          micros  |-> length % 1000000 ]

\* Python truth value of an optional integer ("if length:", "if pos")
Truthy(v) == v # None /\ v[1] # 0

\* whether the status line carries the "(pos/length)" part
ShowsLength(length) == Truthy(length)

\* whether the position is rendered as a duration rather than as '???'
ShowsPosition(p) == Truthy(p)

\* len_str of the status command
LenStr(length, p) ==
    IF ShowsLength(length)
    THEN [ shown    |-> TRUE,
           posKnown |-> ShowsPosition(p),
           pos_str  |-> IF ShowsPosition(p) THEN track_length_string(p[1])
                        ELSE track_length_string(0),
           len_str  |-> track_length_string(length[1]) ]
    ELSE [ shown    |-> FALSE,
           posKnown |-> FALSE,
           pos_str  |-> track_length_string(0),
           len_str  |-> track_length_string(0) ]

\* variant: toggle is gated by CanPlay instead of CanPause
CommandFlagTogglePlay(cmd) ==
    CASE cmd = "toggle" -> "CanPlay"
      [] cmd = "play"   -> "CanPlay"
      [] cmd = "next"   -> "CanGoNext"
      [] cmd = "prev"   -> "CanGoPrevious"
      [] cmd = "pause"  -> "CanPause"

\* the capability property a command reads after CanControl
CommandFlag(cmd) ==
    CASE cmd = "toggle" -> "CanPause"
      [] cmd = "play"   -> "CanPlay"
      [] cmd = "next"   -> "CanGoNext"
      [] cmd = "prev"   -> "CanGoPrevious"
      [] cmd = "pause"  -> "CanPause"

\* the player method a command invokes
CommandMethod(cmd) ==
    CASE cmd = "toggle" -> "PlayPause"
      [] cmd = "stop"   -> "Stop"
      [] cmd = "play"   -> "Play"
      [] cmd = "next"   -> "Next"
      [] cmd = "prev"   -> "Previous"
      [] cmd = "pause"  -> "Pause"

\* variant: the CanControl gate lets every reply pass
ControlRefusedNever(r) == FALSE

\* "elif not service.get_player_property('CanControl')"
ControlRefused(r) == r = "false"

\* which faults of a capability probe leave the interface marked absent
ProbeAbsent(r) == r # "ok"

\* variant: every fault of the Position read is taken as "no position"
PositionAbsorbedAny(r) == TRUE

\* which fault of the Position read is taken as "no position"
PositionAbsorbed(r) == r = "NotSupported"

\* variant: every error name starting with 'Unknown' is taken for UnknownMethod
IsUnknownMethodLoose(r) == r \in {"UnknownMethod", "UnknownInterface"}

\* ex.get_dbus_name().endswith('UnknownMethod')
IsUnknownMethod(r) == r = "UnknownMethod"

\* the line printed for a fault of OpenUri
OpenFaultLine(r) ==
    IF IsUnknownMethod(r) THEN "open_unsupported" ELSE "unexpected_error"

\* variant: the first matching entry is kept
NextCandidateFirst(cur, h) == IF cur = None THEN <<h>> ELSE cur

\* "service = MprisService(s)" in the name matching loop
NextCandidate(cur, h) == <<h>>

\* variant: the loop is left after the first entry that was opened
ScanBreak(i, n) == n + 1

\* where "for s in services" continues after an entry has been opened
ScanAfterOpen(i, n) == i + 1

\* first command step once the service is open
DispatchPc(cmd) == IF cmd = "status" THEN "status" ELSE "can_control"

\* an exception leaves the script: traceback, exit status 1
Uncaught(kind) ==
    /\ raised' = kind
    /\ exitcode' = <<1>>
    /\ pc' = "done"

\* exit(n), or the end of the script with n = 0
Exit(n) ==
    /\ exitcode' = <<n>>
    /\ pc' = "done"
    /\ UNCHANGED raised

-----------------------------------------------------------------------------
Init ==
    /\ pc = "start"
    /\ services = <<>>
    /\ command = "status"
    /\ select = <<>>
    /\ verbose = FALSE
    /\ hasUri = FALSE
    /\ sel = <<>>
    /\ ret = "main"
    /\ scan = 0
    /\ self = None
    /\ service = None
    /\ idx = 0
    /\ calls = <<>>
    /\ meta = [length |-> None]
    /\ pos = None
    /\ out = <<>>
    /\ statusLine = None
    /\ exitcode = None
    /\ raised = "none"

\* services = get_services()
GetServices ==
    /\ pc = "start"
    /\ \E names \in BusSnapshots :
         services' = FilterServices(names)
    /\ calls' = Append(calls, Call("ListNames", "bus", "ok"))
    /\ pc' = "parse"
    /\ UNCHANGED <<command, select, verbose, hasUri, sel, ret, scan, self,
                   service, idx, meta, pos, out, statusLine, exitcode, raised>>


\* parser construction and parser.parse_args(); "--commands" lists the
\* commands and exits
ParseArgs ==
    /\ pc = "parse"
    /\ IF services = <<>>
       THEN \* services[0] in the default of --service
            /\ Uncaught("IndexError")
            /\ UNCHANGED <<command, select, verbose, hasUri, sel, ret, idx, out>>
       ELSE \E cmd \in Commands, s \in Selectors \cup {services[1]},
               v \in BOOLEAN, u \in BOOLEAN, listCommands \in BOOLEAN :
              \* arguments that the run never looks at stay at their defaults
              /\ listCommands =>
                   cmd = "status" /\ s = services[1] /\ ~v
              /\ cmd = "services" => s = services[1]
              /\ cmd # "open" => ~u
              /\ command' = cmd
              /\ select' = s
              /\ verbose' = v
              /\ hasUri' = u
              /\ IF listCommands
                 THEN /\ out' = Append(out, "commands")
                      /\ Exit(0)
                      /\ UNCHANGED <<sel, ret, idx>>
                 ELSE IF cmd = "services"
                 THEN /\ idx' = 1
                      /\ pc' = "services"
                      /\ UNCHANGED <<sel, ret, out, exitcode, raised>>
                 ELSE /\ sel' = s
                      /\ ret' = "main"
                      /\ pc' = "open_service"
                      /\ UNCHANGED <<idx, out, exitcode, raised>>
    /\ UNCHANGED <<services, scan, self, service, calls, meta, pos, statusLine>>

\* one round of "for i, s in enumerate(services)" of the services command,
\* up to the call of _open_service; exit(0) after the last round
ServicesLoop ==
    /\ pc = "services"
    /\ IF idx > Len(services)
       THEN /\ Exit(0)
            /\ UNCHANGED <<out, sel, ret, idx>>
       ELSE /\ out' = Append(out, "service_entry")
            /\ IF verbose
               THEN /\ sel' = services[idx]
                    /\ ret' = "services_verbose"
                    /\ pc' = "open_service"
                    /\ UNCHANGED idx
               ELSE /\ idx' = idx + 1
                    /\ UNCHANGED <<pc, sel, ret>>
            /\ UNCHANGED <<exitcode, raised>>
    /\ UNCHANGED <<services, command, select, verbose, hasUri, scan, self,
                   service, calls, meta, pos, statusLine>>

\* rest of a verbose round: the two support lines and base_properties()
ServicesVerbose ==
    /\ pc = "services_verbose"
    /\ IF service = None
       THEN \* service.playlists on None
            /\ Uncaught("AttributeError")
            /\ UNCHANGED <<calls, out, idx>>
       ELSE \E r \in {"ok"} \cup ReadFaults :
              /\ calls' = Append(calls, Call("GetAll", "base", r))
              /\ IF r = "ok"
                 THEN /\ out' = Append(out, "service_details")
                      /\ idx' = idx + 1
                      /\ pc' = "services"
                      /\ UNCHANGED <<exitcode, raised>>
                 ELSE /\ Uncaught(r)
                      /\ UNCHANGED <<out, idx>>
    /\ UNCHANGED <<services, command, select, verbose, hasUri, sel, ret, scan,
                   self, service, meta, pos, statusLine>>

\* _open_service up to the first MprisService(...) or the numeric failure
OpenService ==
    /\ pc = "open_service"
    /\ service' = None
    /\ IF IsInt(sel)
       THEN /\ scan' = 0
            /\ IF IndexValid(ParseInt(sel), Len(services))
               THEN /\ self' = <<[name      |-> Subscript(services, ParseInt(sel)),
                                  playlists |-> TRUE,
                                  tracklist |-> TRUE]>>
                    /\ pc' = "construct"
                    /\ UNCHANGED out
               ELSE \* except IndexError
                    /\ out' = Append(out, "notfound_no")
                    /\ pc' = ret
                    /\ UNCHANGED self
       ELSE \* except ValueError: name matching
            /\ scan' = 1
            /\ pc' = "scan"
            /\ UNCHANGED <<self, out>>
    /\ UNCHANGED <<services, command, select, verbose, hasUri, sel, ret, idx,
                   calls, meta, pos, statusLine, exitcode, raised>>

\* one round of "for s in services" and, after the last, the test of
\* "service is None" and the return
Scan ==
    /\ pc = "scan"
    /\ IF scan > Len(services)
       THEN /\ out' = IF service = None THEN Append(out, "notfound_name") ELSE out
            /\ pc' = ret
            /\ UNCHANGED <<scan, self>>
       ELSE IF EndsWith(services[scan], sel)
       THEN /\ self' = <<[name      |-> services[scan],
                          playlists |-> TRUE,
                          tracklist |-> TRUE]>>
            /\ pc' = "construct"
            /\ UNCHANGED <<scan, out>>
       ELSE /\ scan' = scan + 1
            /\ UNCHANGED <<pc, self, out>>
    /\ UNCHANGED <<services, command, select, verbose, hasUri, sel, ret,
                   service, idx, calls, meta, pos, statusLine, exitcode, raised>>

\* MprisService.__init__: bus.get_object and the four interfaces
Construct ==
    /\ pc = "construct"
    /\ \E r \in {"ok", "ServiceUnknown"} :
         /\ calls' = Append(calls, Call("GetObject", "proxy", r))
         /\ IF r = "ok"
            THEN /\ pc' = "probe_playlists"
                 /\ UNCHANGED <<exitcode, raised>>
            ELSE Uncaught(r)
    /\ UNCHANGED <<services, command, select, verbose, hasUri, sel, ret, scan,
                   self, service, idx, meta, pos, out, statusLine>>

\* MprisService.__init__: the probe of the playlists interface
ProbePlaylists ==
    /\ pc = "probe_playlists"
    /\ \E r \in {"ok"} \cup ProbeFaults :
         /\ calls' = Append(calls, Call("Get", "PlaylistCount", r))
         /\ self' = <<[self[1] EXCEPT !.playlists = ~ProbeAbsent(r)]>>
    /\ pc' = "probe_tracklist"
    /\ UNCHANGED <<services, command, select, verbose, hasUri, sel, ret, scan,
                   service, idx, meta, pos, out, statusLine, exitcode, raised>>

\* MprisService.__init__: the probe of the tracklist interface; the new
\* object is then assigned to "service" and _open_service goes on
ProbeTracklist ==
    /\ pc = "probe_tracklist"
    /\ \E r \in {"ok"} \cup ProbeFaults :
         /\ calls' = Append(calls, Call("Get", "CanEditTracks", r))
         /\ service' = NextCandidate(service,
                          [self[1] EXCEPT !.tracklist = ~ProbeAbsent(r)])
    /\ self' = None
    /\ IF scan = 0
       THEN /\ pc' = ret
            /\ UNCHANGED scan
       ELSE /\ scan' = ScanAfterOpen(scan, Len(services))
            /\ pc' = "scan"
    /\ UNCHANGED <<services, command, select, verbose, hasUri, sel, ret, idx,
                   meta, pos, out, statusLine, exitcode, raised>>

\* "if not service: exit(1)" and the choice of the next block
Main ==
    /\ pc = "main"
    /\ IF service = None
       THEN Exit(ExitNotFound)
       ELSE /\ pc' = IF verbose THEN "verbose_base" ELSE DispatchPc(command)
            /\ UNCHANGED <<exitcode, raised>>
    /\ UNCHANGED <<services, command, select, verbose, hasUri, sel, ret, scan,
                   self, service, idx, calls, meta, pos, out, statusLine>>

\* "if args.verbose": service.base_properties()
VerboseBase ==
    /\ pc = "verbose_base"
    /\ \E r \in {"ok"} \cup ReadFaults :
         /\ calls' = Append(calls, Call("GetAll", "base", r))
         /\ IF r = "ok"
            THEN /\ out' = Append(out, "service_details")
                 /\ pc' = "verbose_player"
                 /\ UNCHANGED <<exitcode, raised>>
            ELSE /\ Uncaught(r)
                 /\ UNCHANGED out
    /\ UNCHANGED <<services, command, select, verbose, hasUri, sel, ret, scan,
                   self, service, idx, meta, pos, statusLine>>

\* "if args.verbose": service.player_properties()
VerbosePlayer ==
    /\ pc = "verbose_player"
    /\ \E r \in {"ok"} \cup ReadFaults :
         /\ calls' = Append(calls, Call("GetAll", "player", r))
         /\ IF r = "ok"
            THEN /\ out' = Append(out, "player_details")
                 /\ pc' = DispatchPc(command)
                 /\ UNCHANGED <<exitcode, raised>>
            ELSE /\ Uncaught(r)
                 /\ UNCHANGED out
    /\ UNCHANGED <<services, command, select, verbose, hasUri, sel, ret, scan,
                   self, service, idx, meta, pos, statusLine>>


\* status: service.get_player_property('PlaybackStatus'), and print(status)
\* when it is neither 'Playing' nor 'Paused'
StatusRead ==
    /\ pc = "status"
    /\ \E r \in PlaybackStatuses \cup ReadFaults :
         /\ calls' = Append(calls, Call("Get", "PlaybackStatus", r))
         /\ IF r \in ReadFaults
            THEN /\ Uncaught(r)
                 /\ UNCHANGED out
            ELSE IF r = "Playing" \/ r = "Paused"
            THEN /\ pc' = "metadata"
                 /\ UNCHANGED <<out, exitcode, raised>>
            ELSE /\ out' = Append(out, "status_raw")
                 /\ Exit(0)
    /\ UNCHANGED <<services, command, select, verbose, hasUri, sel, ret, scan,
                   self, service, idx, meta, pos, statusLine>>

\* status: meta = service.get_player_property('Metadata')
MetadataRead ==
    /\ pc = "metadata"
    /\ \E r \in {"ok"} \cup ReadFaults :
         /\ calls' = Append(calls, Call("Get", "Metadata", r))
         /\ IF r = "ok"
            THEN /\ \E length \in {None} \cup { <<l>> : l \in Micros } :
                      meta' = [length |-> length]
                 /\ pc' = "position"
                 /\ UNCHANGED <<exitcode, raised>>
            ELSE /\ Uncaught(r)
                 /\ UNCHANGED meta
    /\ UNCHANGED <<services, command, select, verbose, hasUri, sel, ret, scan,
                   self, service, idx, pos, out, statusLine>>

\* status: the Position read with its exception handler, then the status
\* line is built and printed
PositionRead ==
    /\ pc = "position"
    /\ \E r \in {"ok"} \cup FaultKinds :
         /\ calls' = Append(calls, Call("Get", "Position", r))
         /\ IF r = "ok"
            THEN \E p \in Micros :
                   /\ pos' = <<p>>
                   /\ statusLine' =
                        <<[status  |-> calls[Len(calls) - 1].result,
                           len_str |-> LenStr(meta.length, <<p>>)]>>
                   /\ out' = Append(out, "status_line")
                   /\ Exit(0)
            ELSE IF PositionAbsorbed(r)
            THEN /\ pos' = None
                 /\ statusLine' =
                      <<[status  |-> calls[Len(calls) - 1].result,
                         len_str |-> LenStr(meta.length, None)]>>
                 /\ out' = Append(out, "status_line")
                 /\ Exit(0)
            ELSE /\ out' = Append(out, "position_error")
                 /\ Uncaught(r)
                 /\ UNCHANGED <<pos, statusLine>>
    /\ UNCHANGED <<services, command, select, verbose, hasUri, sel, ret, scan,
                   self, service, idx, meta>>

\* "elif not service.get_player_property('CanControl')"
CanControlRead ==
    /\ pc = "can_control"
    /\ \E r \in {"true", "false"} \cup ReadFaults :
         /\ calls' = Append(calls, Call("Get", "CanControl", r))
         /\ IF r \in ReadFaults
            THEN /\ Uncaught(r)
                 /\ UNCHANGED out
            ELSE IF ControlRefused(r)
            THEN /\ out' = Append(out, "control_denied")
                 /\ Exit(1)
            ELSE /\ pc' = CASE command = "stop" -> "invoke"
                            [] command = "open" -> "open"
                            [] OTHER            -> "flag"
                 /\ UNCHANGED <<out, exitcode, raised>>
    /\ UNCHANGED <<services, command, select, verbose, hasUri, sel, ret, scan,
                   self, service, idx, meta, pos, statusLine>>

\* toggle, play, next, prev, pause: the read of the command's own property
FlagRead ==
    /\ pc = "flag"
    /\ \E r \in {"true", "false"} \cup ReadFaults :
         /\ calls' = Append(calls, Call("Get", CommandFlag(command), r))
         /\ IF r \in ReadFaults
            THEN /\ Uncaught(r)
                 /\ UNCHANGED out
            ELSE IF r = "true"
            THEN /\ pc' = "invoke"
                 /\ UNCHANGED <<out, exitcode, raised>>
            ELSE /\ out' = Append(out, "not_supported")
                 /\ Exit(ExitUnsupported)
    /\ UNCHANGED <<services, command, select, verbose, hasUri, sel, ret, scan,
                   self, service, idx, meta, pos, statusLine>>

\* toggle, stop, play, next, prev, pause: the call of the player method
Invoke ==
    /\ pc = "invoke"
    /\ \E r \in {"ok"} \cup ReadFaults :
         /\ calls' = Append(calls, Call("Method", CommandMethod(command), r))
         /\ IF r = "ok" THEN Exit(0) ELSE Uncaught(r)
    /\ UNCHANGED <<services, command, select, verbose, hasUri, sel, ret, scan,
                   self, service, idx, meta, pos, out, statusLine>>

\* open: print, service.player.OpenUri(args.args[0]) and its handler
OpenUri ==
    /\ pc = "open"
    /\ IF ~hasUri
       THEN \* args.args[0] on the empty list
            /\ Uncaught("IndexError")
            /\ UNCHANGED <<calls, out>>
       ELSE \E r \in {"ok"} \cup FaultKinds :
              /\ calls' = Append(calls, Call("Method", "OpenUri", r))
              /\ IF r = "ok"
                 THEN /\ out' = Append(out, "opening")
                      /\ Exit(0)
                 ELSE /\ out' = out \o <<"opening", OpenFaultLine(r)>>
                      /\ Exit(1)
    /\ UNCHANGED <<services, command, select, verbose, hasUri, sel, ret, scan,
                   self, service, idx, meta, pos, statusLine>>

Next ==
    \/ GetServices
    \/ ParseArgs
    \/ ServicesLoop
    \/ ServicesVerbose
    \/ OpenService
    \/ Scan
    \/ Construct
    \/ ProbePlaylists
    \/ ProbeTracklist
    \/ Main
    \/ VerboseBase
    \/ VerbosePlayer
    \/ StatusRead
    \/ MetadataRead
    \/ PositionRead
    \/ CanControlRead
    \/ FlagRead
    \/ Invoke
    \/ OpenUri

Spec == Init /\ [][Next]_vars


-----------------------------------------------------------------------------
(* Vocabulary of the properties *)

ControlCommands == { "toggle", "stop", "play", "pause", "next", "prev" }

PerCommandFlags == { "CanPlay", "CanPause", "CanGoNext", "CanGoPrevious" }

ProbeProperties == { "PlaylistCount", "CanEditTracks" }

\* positions in the log of the calls of one kind
CallsOf(op, name) ==
    { i \in DOMAIN calls : calls[i].op = op /\ calls[i].name = name }

Constructions == CallsOf("GetObject", "proxy")

Discoveries == CallsOf("ListNames", "bus")

\* positions of the directory entries whose name ends with s
Matches(s) == { i \in DOMAIN services : EndsWith(services[i], s) }

Last(S) == CHOOSE i \in S : \A j \in S : j <= i

LastOut == IF out = <<>> THEN "nothing" ELSE out[Len(out)]

\* _open_service has just returned to the main script
Returned == pc = "main"

\* the flag and the method the specification gives to each control command
GateOf(cmd) ==
    CASE cmd = "play"   -> "CanPlay"
      [] cmd = "pause"  -> "CanPause"
      [] cmd = "toggle" -> "CanPause"
      [] cmd = "next"   -> "CanGoNext"
      [] cmd = "prev"   -> "CanGoPrevious"
      [] OTHER          -> "none"

MethodOf(cmd) ==
    CASE cmd = "play"   -> "Play"
      [] cmd = "pause"  -> "Pause"
      [] cmd = "toggle" -> "PlayPause"
      [] cmd = "next"   -> "Next"
      [] cmd = "prev"   -> "Previous"
      [] cmd = "stop"   -> "Stop"
      [] OTHER          -> "none"

-----------------------------------------------------------------------------
(* C1 *)

\* C1: when _open_service returns for a selector that parses as an integer
\* i, it returns the object bound to services[i] if 0 <= i < len(services);
\* for every other i, negative ones included, it returns None, has printed
\* the "not found" line and has constructed no object (no fall through to
\* name matching).
C1_NumericSelector ==
    (Returned /\ IsInt(sel)) =>
        LET i == ParseInt(sel)
        IN  IF 0 <= i /\ i < Len(services)
            THEN /\ service # None
                 /\ service[1].name = services[i + 1]
                 /\ Cardinality(Constructions) = 1
            ELSE /\ service = None
                 /\ LastOut = "notfound_no"
                 /\ Constructions = {}

-----------------------------------------------------------------------------
(* C2 *)

\* C2: when _open_service returns for a selector that does not parse as an
\* integer, it returns the object of the last directory entry whose name
\* ends with the selector; if no entry name ends with it, it returns None
\* and has printed the "not found" line.
C2_SuffixSelector ==
    (pc \in {"main", "services_verbose"} /\ ~IsInt(sel)) =>
        IF Matches(sel) = {}
        THEN /\ service = None
             /\ LastOut = "notfound_name"
        ELSE /\ service # None
             /\ service[1].name = services[Last(Matches(sel))]

\* a suffix selector that two entries match has been resolved
C2_Witness ==
    /\ Returned
    /\ ~IsInt(sel)
    /\ Cardinality(Matches(sel)) = 2
    /\ service # None
    /\ service[1].name = services[2]

-----------------------------------------------------------------------------
(* C3 *)

\* C3: for every control command, a per-command capability flag is read
\* only after CanControl was read true; once CanControl has been read
\* false, that read is the last call of the run, the run has ended with the
\* "no control access" line, and neither a per-command flag was read nor a
\* player method invoked.
C3_GlobalGateFirst ==
    command \in ControlCommands =>
        /\ \A i \in DOMAIN calls :
             (calls[i].op = "Get" /\ calls[i].name \in PerCommandFlags) =>
                 \E j \in 1..(i - 1) : calls[j] = Call("Get", "CanControl", "true")
        /\ \A j \in DOMAIN calls :
             calls[j] = Call("Get", "CanControl", "false") =>
                 /\ j = Len(calls)
                 /\ pc = "done"
                 /\ LastOut = "control_denied"
                 /\ raised = "none"
                 /\ \A i \in DOMAIN calls :
                      /\ calls[i].op # "Method"
                      /\ ~(calls[i].op = "Get" /\ calls[i].name \in PerCommandFlags)

\* a verbose "play" run has ended on CanControl = false
C3_Witness ==
    /\ pc = "done"
    /\ command = "play"
    /\ verbose
    /\ calls # <<>>
    /\ calls[Len(calls)] = Call("Get", "CanControl", "false")
    /\ LastOut = "control_denied"

-----------------------------------------------------------------------------
(* C4 *)

\* C4: a player method other than OpenUri is invoked only for a control
\* command, is the method of that command, follows a true read of
\* CanControl and, except for stop, directly follows a true read of the
\* command's own flag (CanPlay; CanPause for pause and toggle; CanGoNext;
\* CanGoPrevious).  A per-command flag that is read is the command's own;
\* when it reads false, the run ends there with "not supported" and no
\* method is invoked.
C4_PerCommandGate ==
    /\ \A i \in DOMAIN calls :
         (calls[i].op = "Method" /\ calls[i].name # "OpenUri") =>
             /\ command \in ControlCommands
             /\ calls[i].name = MethodOf(command)
             /\ \E j \in 1..(i - 1) : calls[j] = Call("Get", "CanControl", "true")
             /\ IF command = "stop"
                THEN calls[i - 1] = Call("Get", "CanControl", "true")
                ELSE calls[i - 1] = Call("Get", GateOf(command), "true")
    /\ \A i \in DOMAIN calls :
         (calls[i].op = "Get" /\ calls[i].name \in PerCommandFlags) =>
             /\ calls[i].name = GateOf(command)
             /\ calls[i].result = "false" =>
                  /\ i = Len(calls)
                  /\ pc = "done"
                  /\ LastOut = "not_supported"
                  /\ raised = "none"
                  /\ exitcode # <<0>>

\* a toggle run has ended on CanControl = true, CanPause = false
C4_Witness ==
    /\ pc = "done"
    /\ command = "toggle"
    /\ Len(calls) >= 2
    /\ calls[Len(calls) - 1] = Call("Get", "CanControl", "true")
    /\ calls[Len(calls)] = Call("Get", "CanPause", "false")
    /\ LastOut = "not_supported"

-----------------------------------------------------------------------------
(* C5 *)

\* C5: a capability probe that succeeds records the interface present, one
\* that faults with the interface-not-supported kind records it absent, and
\* one that faults with any other kind propagates out of the construction,
\* so that no object with an "absent" flag results from it.
C5_ProbeFaultDiscrimination ==
    /\ \A i \in DOMAIN calls :
         (/\ calls[i].op = "Get"
          /\ calls[i].name \in ProbeProperties
          /\ calls[i].result \notin {"ok", "UnknownInterface"}) =>
             /\ raised = calls[i].result
             /\ i = Len(calls)
    /\ (pc = "probe_tracklist"
          /\ calls[Len(calls)].result \in {"ok", "UnknownInterface"}) =>
             self[1].playlists = (calls[Len(calls)].result = "ok")
    /\ (Returned /\ service # None
          /\ calls[Len(calls)].result \in {"ok", "UnknownInterface"}) =>
             service[1].tracklist = (calls[Len(calls)].result = "ok")

-----------------------------------------------------------------------------
(* C6 *)

-----------------------------------------------------------------------------
(* C7 *)

\* C7: in a status query, a Position read that faults with NotSupported is
\* absorbed: the run ends normally with a status line whose position is
\* unknown; a Position read that faults with any other kind leaves the
\* script as that fault and no status line is printed; when PlaybackStatus
\* is neither Playing nor Paused only the raw status is printed and neither
\* Metadata nor Position is read.
C7_StatusPositionFaults ==
    /\ \A i \in CallsOf("Get", "Position") :
         /\ calls[i].result = "NotSupported" =>
              /\ pc = "done"
              /\ raised = "none"
              /\ exitcode = <<0>>
              /\ pos = None
              /\ LastOut = "status_line"
              /\ statusLine # None
              /\ ~statusLine[1].len_str.posKnown
         /\ calls[i].result \notin {"ok", "NotSupported"} =>
              /\ pc = "done"
              /\ raised = calls[i].result
              /\ statusLine = None
              /\ \A k \in DOMAIN out : out[k] # "status_line"
    /\ \A i \in CallsOf("Get", "PlaybackStatus") :
         calls[i].result \in PlaybackStatuses \ {"Playing", "Paused"} =>
              /\ i = Len(calls)
              /\ pc = "done"
              /\ LastOut = "status_raw"
              /\ statusLine = None
              /\ CallsOf("Get", "Metadata") = {}
              /\ CallsOf("Get", "Position") = {}

\* a status line with length and unknown position was printed after a
\* NotSupported fault of the Position read
C7_Witness ==
    /\ pc = "done"
    /\ command = "status"
    /\ calls # <<>>
    /\ calls[Len(calls)] = Call("Get", "Position", "NotSupported")
    /\ statusLine # None
    /\ statusLine[1].len_str.shown
    /\ ~statusLine[1].len_str.posKnown

-----------------------------------------------------------------------------
(* C8 *)

\* a run that ended on a capability gate: CanControl false, a per-command
\* flag false, or the unknown-method fault of OpenUri
GateFailure ==
    /\ pc = "done"
    /\ LastOut \in {"control_denied", "not_supported", "open_unsupported"}

\* a run that ended because the selector matched no service
SelectorNotFound ==
    /\ pc = "done"
    /\ LastOut \in {"notfound_no", "notfound_name"}

\* C8: every run that ends on a capability gate ends with the "unsupported"
\* exit status, every run that ends on selector-not-found ends with the
\* "not found" exit status, and the two differ from each other and from
\* the status of success.
C8_ExitContract ==
    /\ ExitUnsupported # ExitNotFound
    /\ ExitUnsupported # 0
    /\ ExitNotFound # 0
    /\ GateFailure => exitcode = <<ExitUnsupported>>
    /\ SelectorNotFound => exitcode = <<ExitNotFound>>

-----------------------------------------------------------------------------
(* C9 *)

\* C9: in a status line, the position/length pair is present exactly when
\* Metadata holds a length (0 included); whenever the Position read gave a
\* value p (0 included) the pair shows p as a duration; the unknown
\* position marker is shown only after a NotSupported fault of the
\* Position read.
C9_PositionLengthPair ==
    (pc = "done" /\ statusLine # None) =>
        LET ls == statusLine[1].len_str
        IN  /\ ls.shown <=> (meta.length # None)
            /\ (ls.shown /\ pos # None) =>
                  /\ ls.posKnown
                  /\ ls.pos_str = track_length_string(pos[1])
            /\ (ls.shown /\ ~ls.posKnown) =>
                  calls[Len(calls)] = Call("Get", "Position", "NotSupported")

-----------------------------------------------------------------------------
(* C10 *)

\* C10 as stated: in every run exactly one discovery is made and at most
\* one MprisService object is constructed.
C10_OneConstruction ==
    /\ Cardinality(Discoveries) = IF pc = "start" THEN 0 ELSE 1
    /\ Cardinality(Constructions) <= 1

\* C10 amended: in every run exactly one discovery is made.  For a command
\* other than services, a numeric selector constructs at most one
\* MprisService object, and a suffix selector constructs one object per
\* directory entry whose name ends with it (only the last is kept).  The
\* services command constructs none without -v and, with -v, at least one
\* per listed entry.
C10_OneDiscovery ==
    /\ Cardinality(Discoveries) = IF pc = "start" THEN 0 ELSE 1
    /\ (command # "services" /\ IsInt(select)) =>
          Cardinality(Constructions) <= 1
    /\ (command # "services" /\ ~IsInt(select)) =>
          /\ Cardinality(Constructions) <= Cardinality(Matches(select))
          /\ Returned =>
               Cardinality(Constructions) = Cardinality(Matches(select))
    /\ (command = "services" /\ ~verbose) => Constructions = {}
    /\ (command = "services" /\ verbose /\ pc = "done" /\ raised = "none") =>
          Cardinality(Constructions) >= Len(services)

\* a suffix selector that two entries match was resolved with two
\* constructions
C10_Witness ==
    /\ Returned
    /\ command # "services"
    /\ ~IsInt(select)
    /\ Cardinality(Matches(select)) = 2
    /\ Cardinality(Constructions) = 2

====
